---- MODULE Spec2Model ----
(***************************************************************************)
(* Model of modality/vision/archery_vision_analysis.py: the batch driver   *)
(* main() and the per-image call describe_image_with_pipeline().           *)
(*                                                                         *)
(* File names, prompts and generated texts are sequences of one-character  *)
(* strings, so that glob's pattern matching and the bold-markup regex are  *)
(* computed rather than assumed.  Python's None is the empty sequence and  *)
(* a present value x is <<x>>.                                             *)
(*                                                                         *)
(* The collaborators (transformers.pipeline, the pipeline call, psutil,    *)
(* cached_file, the directory listing, the encoding of stdout) are the     *)
(* environment: their results are drawn from small sets.  Any of the       *)
(* calls may raise a Python Exception; a print raises when stdout cannot   *)
(* encode the text.  psutil is read anew at every memory sample.           *)
(***************************************************************************)
EXTENDS Integers, Sequences, FiniteSets

VARIABLES
    dir,            \* entries of the current working directory
    cuda,           \* torch.cuda.is_available()
    stdout_encoding, \* sys.stdout.encoding
    now,            \* time.time(); a load or a generation takes one unit
    pc,             \* position of the run
    image_files,    \* main: image_files
    pipe,           \* main: pipe
    idx,            \* main: position of the for loop in image_files (1-based)
    model_load_start, \* main: model_load_start
    infer_start,    \* main: infer_start
    mem_before,     \* main: mem_before
    res,            \* what the call at line 148 did: returned a value or raised
    out,            \* standard output, one record per print() call
    pipeline_calls, \* every transformers.pipeline(...) construction, in order
    generate_calls, \* every pipe(text=..., max_new_tokens=...) call, in order
    describe_calls, \* every describe_image_with_pipeline call, in order
    probes          \* every get_model_size_gb call, in order

vars == << dir, cuda, stdout_encoding, now, pc, image_files, pipe, idx, model_load_start,
           infer_start, mem_before, res, out, pipeline_calls, generate_calls,
           describe_calls, probes >>

----------------------------------------------------------------------------
(* Bounds of the model *)

\* largest number of entries in the working directory
MaxEntries == 2
\* largest number of isolated describe_image_with_pipeline calls (SpecDescribe)
MaxCalls == 1

----------------------------------------------------------------------------
(* Python values *)

None == << >>
Some(x) == << x >>

\* line 19
MODEL_ID == "google/gemma-3n-e4b-it"

\* lines 44-60: the system instruction, one opaque constant
SYSTEM_PROMPT == "You are a Archery Expert Coach ... Expert Analysis: <Your Detailed Analysis>"

\* line 70
max_new_tokens == 200

\* line 107, each pattern as its characters
image_extensions ==
    << << "*", ".", "p", "n", "g" >>,
       << "*", ".", "j", "p", "g" >>,
       << "*", ".", "j", "p", "e", "g" >>,
       << "*", ".", "w", "e", "b", "p" >> >>

----------------------------------------------------------------------------
(* The environment's inputs *)

File(n) == [name |-> n, kind |-> "file"]
Directory(n) == [name |-> n, kind |-> "dir"]

\* The entries a working directory is drawn from: image files, a directory
\* with an image's name, and entries the patterns do not select.  The names
\* are ASCII.
Universe ==
    { File(<< "a", ".", "j", "p", "g" >>),
      File(<< "b", ".", "p", "n", "g" >>),
      Directory(<< "d", ".", "w", "e", "b", "p" >>),
      File(<< "n", ".", "t", "x", "t" >>),
      File(<< "c", ".", "J", "P", "G" >>),
      File(<< ".", "h", ".", "j", "p", "e", "g" >>) }

Directories == { d \in SUBSET Universe : Cardinality(d) <= MaxEntries }

\* lines 96 and 103: 1024 ** 3 bytes.  Sizes are counted in MiB here (TLC's
\* integers are 32-bit), which makes the divisor 1024.
GiB == 1024

\* process.memory_info().rss, in MiB
RssSamples == { GiB, 2 * GiB }

\* what psutil does at one memory sample (lines 101-102): answers with the
\* resident set size of that moment, or raises
PsutilOutcomes ==
    { [ok |-> TRUE, rss |-> m] : m \in RssSamples }
        \cup { [ok |-> FALSE, rss |-> 0] }

\* Python values a turn's content may be: a str, with its characters, or None
Str(t) == [type |-> "str", chars |-> t]
NoneValue == [type |-> "NoneType", chars |-> << >>]

\* the texts the generation capability returns: plain text with a part in
\* bold markup, without and with a character outside ASCII
Texts ==
    { << "G", "o", "o", "d", " ", "*", "*", "s", "t", "a", "n", "c", "e",
         "*", "*", "." >>,
      << "G", "o", "o", "d", " ", "U+2713", " ", "*", "*", "s", "t", "a",
         "n", "c", "e", "*", "*", "." >> }

\* the characters of the texts that are outside ASCII
NonAscii == { "U+2713" }

\* sys.stdout.encoding
Encodings == { "utf-8", "ascii" }

\* what describe_image_with_pipeline's caller may pass as user_text
UserTexts == { None, Some("Describe this image."), Some("Is the stance open?") }

\* what the pipeline call at line 70 does: returns an output whose last turn
\* holds a text, returns one whose last turn holds None, or raises
GenOutcomes ==
    { [kind |-> "return", content |-> Str(t)] : t \in Texts }
        \cup { [kind |-> "return", content |-> NoneValue],
               [kind |-> "raise", content |-> NoneValue] }

\* str(e) of the exceptions
GenerationError == << "b", "o", "o", "m" >>
EngineInitError == << "i", "n", "i", "t" >>
PsutilError == << "p", "s", "u", "t", "i", "l" >>
TypeError == << "e", "x", "p", "e", "c", "t", "e", "d", " ", "s", "t", "r" >>
UnicodeEncodeError == << "c", "a", "n", "'", "t", " ", "e", "n", "c", "o",
                         "d", "e" >>

\* what transformers.pipeline(...) does: returns a pipeline or raises
InitOutcomes == { "ok", "raise" }

\* what cached_file and the directory walk do (lines 91-96): the weights are
\* not in the cache, the probe raises, or the files total a number of GiB.
\* The imports of lines 87-88 are from the package line 14 has imported.
ProbeOutcomes ==
    { [kind |-> "missing", total_mib |-> 0],
      [kind |-> "raise", total_mib |-> 0],
      [kind |-> "found", total_mib |-> 15 * GiB] }

----------------------------------------------------------------------------
(* glob.glob(pattern) in the working directory *)

RECURSIVE fnmatch(_, _)
\* fnmatch.fnmatchcase: "*" matches any run of characters, every other
\* character of these patterns matches itself, case-sensitively
fnmatch(name, pat) ==
    IF pat = << >> THEN name = << >>
    ELSE IF Head(pat) = "*"
         THEN \E k \in 0..Len(name) :
                 fnmatch(SubSeq(name, k + 1, Len(name)), Tail(pat))
         ELSE /\ name # << >>
              /\ Head(name) = Head(pat)
              /\ fnmatch(Tail(name), Tail(pat))

\* glob._ishidden
ishidden(name) == name # << >> /\ Head(name) = "."

\* the names glob.glob(pat) returns: every entry of the directory, of any
\* kind, whose name matches and is not hidden (the pattern is not hidden)
glob(entries, pat) ==
    { e.name : e \in { x \in entries :
                         fnmatch(x.name, pat) /\ ~ishidden(x.name) } }

\* the orders in which a listing may come back (os.scandir order)
Orderings(S) ==
    { s \in [1..Cardinality(S) -> S] :
        \A i, j \in 1..Cardinality(S) : i # j => s[i] # s[j] }

----------------------------------------------------------------------------
(* describe_image_with_pipeline, lines 26-71 *)

\* lines 29-34 and 117-122
device(c) == IF c THEN "cuda" ELSE "cpu"
dtype(c) == IF c THEN "bfloat16" ELSE "float32"

\* lines 35-40 and 124-129: the pipeline construction with its arguments, and
\* the place that made it ("main", "describe", or "caller" for a pipeline
\* the caller of an isolated call brings)
pipeline(c, site) ==
    [task |-> "image-text-to-text", model |-> MODEL_ID,
     torch_dtype |-> dtype(c), device |-> device(c), site |-> site]

\* the mutation of lines 64-67 with line 66 in force
messages_with_text(image_path, user_text) ==
    << [role |-> "system",
        content |-> << [type |-> "text", text |-> SYSTEM_PROMPT] >>],
       [role |-> "user",
        content |-> << [type |-> "image", image |-> image_path],
                       [type |-> "text",
                        text |-> IF user_text = None
                                 THEN "Describe this image."
                                 ELSE user_text[1]] >>] >>

\* lines 41-69: the conversation; user_text is not used (line 66 is a comment)
messages(image_path, user_text) ==
    << [role |-> "system",
        content |-> << [type |-> "text", text |-> SYSTEM_PROMPT] >>],
       [role |-> "user",
        content |-> << [type |-> "image", image |-> image_path] >>] >>

\* line 70: what a pipeline returns for a chat: the conversation followed by
\* the assistant's turn
pipe_output(msgs, content) ==
    << [generated_text |->
            Append(msgs, [role |-> "assistant", content |-> content])] >>

\* line 71
last_content(output) ==
    output[1].generated_text[Len(output[1].generated_text)].content

\* the mutation of line 28 that forgets the handle it was given
needs_pipeline_always(pipe_arg) == TRUE

\* line 28
needs_pipeline(pipe_arg) == pipe_arg = None

\* the mutation of line 70 that calls again after a failure
attempts_retry(gen, call) ==
    IF gen.kind = "raise" THEN << call, call >> ELSE << call >>

\* line 70: the pipeline is called once
attempts(gen, call) == << call >>

\* The whole function.  init is what a pipeline construction would do, gen
\* what the pipeline call would do.  The result says which constructions and
\* calls were made and whether the function returned a value or raised.
describe_image_with_pipeline(image_path, user_text, pipe_arg, c, init, gen) ==
    LET build == needs_pipeline(pipe_arg)
        built == IF build
                 THEN << [call |-> pipeline(c, "describe"),
                          raised |-> init = "raise"] >>
                 ELSE << >>
        p     == IF build THEN Some(pipeline(c, "describe")) ELSE pipe_arg
        msgs  == messages(image_path, user_text)
        call  == [pipe |-> p, text |-> msgs, max_new_tokens |-> max_new_tokens]
    IN  IF build /\ init = "raise"
        THEN [built |-> built, calls |-> << >>, raised |-> TRUE,
              value |-> NoneValue, error |-> EngineInitError]
        ELSE IF gen.kind = "raise"
        THEN [built |-> built, calls |-> attempts(gen, call), raised |-> TRUE,
              value |-> NoneValue, error |-> GenerationError]
        ELSE [built |-> built, calls |-> attempts(gen, call), raised |-> FALSE,
              value |-> last_content(pipe_output(msgs, gen.content)),
              error |-> << >>]

\* the record of one call of the function: its arguments, the pipeline calls
\* it made and whether it raised
described(image_path, user_text, pipe_arg, r) ==
    [image_path |-> image_path, user_text |-> user_text, pipe |-> pipe_arg,
     sent |-> r.calls, raised |-> r.raised]

----------------------------------------------------------------------------
(* The helpers of main, lines 80-103 *)

ANSI_BOLD == << "ESC", "[", "1", "m" >>
ANSI_RESET == << "ESC", "[", "0", "m" >>

\* "**" starts at position i of s
stars(s, i) == i + 1 <= Len(s) /\ s[i] = "*" /\ s[i + 1] = "*"

\* the positions where the lazy group of \*\*(.*?)\*\* opened at i can close:
\* a "**" at j with no newline between
closings(s, i) ==
    { j \in (i + 2)..Len(s) :
        stars(s, j) /\ \A k \in (i + 2)..(j - 1) : s[k] # "\n" }

Min(S) == CHOOSE x \in S : \A y \in S : x <= y

RECURSIVE sub_bold(_, _)
\* re.sub from position i: leftmost match, shortest group, then on from its end
sub_bold(s, i) ==
    IF i > Len(s) THEN << >>
    ELSE IF stars(s, i) /\ closings(s, i) # {}
         THEN LET j == Min(closings(s, i))
              IN  ANSI_BOLD \o SubSeq(s, i + 2, j - 1) \o ANSI_RESET
                      \o sub_bold(s, j + 2)
         ELSE << s[i] >> \o sub_bold(s, i + 1)

\* lines 80-83: re.sub raises a TypeError for a value that is not a str
print_markdown_bold(text) ==
    IF text.type = "str"
    THEN [raised |-> FALSE, value |-> sub_bold(text.chars, 1), error |-> << >>]
    ELSE [raised |-> TRUE, value |-> << >>, error |-> TypeError]

\* lines 85-98: None when the weights are not cached (92-93) or the probe
\* raises (97-98), else the total in GiB (96)
get_model_size_gb(probe) ==
    IF probe.kind = "missing" THEN None
    ELSE IF probe.kind = "raise" THEN None
    ELSE Some(probe.total_mib \div GiB)

\* lines 100-103: the sample in GiB; ok says whether psutil answered
print_memory_usage_gb(ok, mem_mib) ==
    IF ok
    THEN [raised |-> FALSE, value |-> mem_mib \div GiB, error |-> << >>]
    ELSE [raised |-> TRUE, value |-> 0, error |-> PsutilError]

\* print(text) writes when stdout can encode every character of the text
encodable(text, encoding) ==
    encoding = "utf-8" \/ \A k \in 1..Len(text) : text[k] \notin NonAscii

\* one print() call: what was printed and the values formatted into it
Emit(line, image, text, num) ==
    [line |-> line, image |-> image, text |-> text, num |-> num]

----------------------------------------------------------------------------
(* main, lines 105-164 *)

NoResult == [raised |-> FALSE, value |-> NoneValue, error |-> << >>]

Init ==
    /\ dir \in Directories
    /\ cuda \in BOOLEAN
    /\ stdout_encoding \in Encodings
    /\ now = 0
    /\ pc = "Discover"
    /\ image_files = << >>
    /\ pipe = None
    /\ idx = 0
    /\ model_load_start = 0
    /\ infer_start = 0
    /\ mem_before = 0
    /\ res = NoResult
    /\ out = << >>
    /\ pipeline_calls = << >>
    /\ generate_calls = << >>
    /\ describe_calls = << >>
    /\ probes = << >>

\* lines 107-110: the four listings, concatenated in the order of the patterns
Listings(entries) ==
    { o1 \o o2 \o o3 \o o4 :
        o1 \in Orderings(glob(entries, image_extensions[1])),
        o2 \in Orderings(glob(entries, image_extensions[2])),
        o3 \in Orderings(glob(entries, image_extensions[3])),
        o4 \in Orderings(glob(entries, image_extensions[4])) }

\* the mutation of lines 111-113 without the return
after_discover_no_return(files) == "LoadEngine"

\* lines 111-113: main returns when nothing was found
after_discover(files) == IF files = << >> THEN "Done" ELSE "LoadEngine"

\* lines 107-113
Discover ==
    /\ pc = "Discover"
    /\ \E files \in Listings(dir) :
          /\ image_files' = files
          /\ out' = IF files = << >>
                    THEN Append(out, Emit("no_images", << >>, << >>, 0))
                    ELSE out
          /\ pc' = after_discover(files)
    /\ UNCHANGED << dir, cuda, stdout_encoding, now, pipe, idx, model_load_start,
                    infer_start, mem_before, res, pipeline_calls,
                    generate_calls, describe_calls, probes >>

\* the mutation of lines 124-130 that swallows the exception
after_load_swallowed(init) == "Summary"

\* lines 124-130: an exception of the construction leaves main, there is no
\* handler around it
after_load(init) == IF init = "raise" THEN "Raised" ELSE "Summary"

\* lines 115-131
LoadEngine ==
    /\ pc = "LoadEngine"
    /\ model_load_start' = now
    /\ \E init \in InitOutcomes :
          /\ pipeline_calls' =
                Append(pipeline_calls, [call |-> pipeline(cuda, "main"),
                                        raised |-> init = "raise"])
          /\ now' = now + 1
          /\ pc' = after_load(init)
          /\ pipe' = IF init = "raise" THEN pipe
                     ELSE Some(pipeline(cuda, "main"))
    /\ UNCHANGED << dir, cuda, stdout_encoding, image_files, idx, infer_start, mem_before,
                    res, out, generate_calls, describe_calls, probes >>

\* lines 131-141, and 143 entering the loop; an exception of the memory
\* sample at line 141 leaves main before that line prints
Summary ==
    /\ pc = "Summary"
    /\ \E probe \in ProbeOutcomes, s141 \in PsutilOutcomes :
          LET model_load_time == now - model_load_start
              model_size_gb == get_model_size_gb(probe)
              size_line ==
                  IF model_size_gb # None
                  THEN Emit("model_size", << >>, << >>, model_size_gb[1])
                  ELSE Emit("model_size_unknown", << >>, << >>, 0)
              initial == print_memory_usage_gb(s141.ok, s141.rss)
          IN  /\ probes' = Append(probes, [model_id |-> MODEL_ID,
                                           kind |-> probe.kind])
              /\ out' = out \o
                    << size_line,
                       Emit("model_loaded", << >>, << >>, model_load_time) >>
                    \o (IF initial.raised THEN << >>
                        ELSE << Emit("initial_memory", << >>, << >>,
                                     initial.value) >>)
              /\ pc' = IF initial.raised THEN "Raised" ELSE "Start"
              /\ idx' = IF initial.raised THEN idx ELSE 1
    /\ UNCHANGED << dir, cuda, stdout_encoding, now, image_files, pipe,
                    model_load_start, infer_start, mem_before, res,
                    pipeline_calls, generate_calls, describe_calls >>

\* lines 144-146; an exception of the memory sample at line 146 leaves main
\* before mem_before is assigned
Start ==
    /\ pc = "Start"
    /\ out' = Append(out, Emit("processing", image_files[idx], << >>, 0))
    /\ infer_start' = now
    /\ \E s146 \in PsutilOutcomes :
          LET before == print_memory_usage_gb(s146.ok, s146.rss)
          IN  /\ mem_before' = IF before.raised THEN mem_before
                               ELSE before.value
              /\ pc' = IF before.raised THEN "Raised" ELSE "Infer"
    /\ UNCHANGED << dir, cuda, stdout_encoding, now, image_files, pipe,
                    idx, model_load_start, res, pipeline_calls,
                    generate_calls, describe_calls, probes >>

\* line 148: the call, with user_text left at its default
Infer ==
    /\ pc = "Infer"
    /\ \E init \in InitOutcomes, gen \in GenOutcomes :
          LET r == describe_image_with_pipeline(image_files[idx], None, pipe,
                                                cuda, init, gen)
          IN  /\ pipeline_calls' = pipeline_calls \o r.built
              /\ generate_calls' = generate_calls \o r.calls
              /\ describe_calls' =
                    Append(describe_calls,
                           described(image_files[idx], None, pipe, r))
              /\ res' = [raised |-> r.raised, value |-> r.value,
                         error |-> r.error]
              /\ now' = now + 1
    /\ pc' = "Report"
    /\ UNCHANGED << dir, cuda, stdout_encoding, image_files, pipe, idx,
                    model_load_start, infer_start, mem_before, out, probes >>

\* lines 149-157: the report of a result
success_report(image_path, result, infer_time, before, after) ==
    << Emit("image_name", image_path, << >>, 0),
       Emit("llm_inference", << >>, print_markdown_bold(result).value, 0),
       Emit("inference_time", << >>, << >>, infer_time),
       Emit("mem_before", << >>, << >>, before),
       Emit("mem_after", << >>, << >>, after),
       Emit("separator", << >>, << >>, 0) >>

\* lines 158-164: the report of an exception
failure_report(image_path, e, infer_time, before, after) ==
    << Emit("error", image_path, e, infer_time),
       Emit("mem_before", << >>, << >>, before),
       Emit("mem_after", << >>, << >>, after) >>

\* the mutation of lines 143-146 that takes the next image without them
after_item_skips_start(raised, i, files) ==
    IF i < Len(files) THEN "Infer" ELSE "Done"

\* lines 143-164: after either branch of the try statement the for loop
\* takes the next image, or main returns after the last one
after_item(raised, i, files) == IF i < Len(files) THEN "Start" ELSE "Done"

\* lines 149-157, the rest of the try body once the call has returned: the
\* lines printed, and the exception that ended it if one did.  sample is the
\* memory sample of line 151.  Line 152 has printed when line 153 raises,
\* for a result that is not a str or that stdout cannot encode.
try_rest(image_path, result, infer_time, before, sample, encoding) ==
    LET report == success_report(image_path, result, infer_time, before,
                                 sample.value)
        bold == print_markdown_bold(result)
    IN  IF sample.raised
        THEN [lines |-> << >>, raised |-> TRUE, error |-> sample.error]
        ELSE IF bold.raised
        THEN [lines |-> SubSeq(report, 1, 1), raised |-> TRUE,
              error |-> bold.error]
        ELSE IF ~encodable(bold.value, encoding)
        THEN [lines |-> SubSeq(report, 1, 1), raised |-> TRUE,
              error |-> UnicodeEncodeError]
        ELSE [lines |-> report, raised |-> FALSE, error |-> << >>]

\* lines 148-157: the ways the try body can end once the call has ended.
\* When the call raised the body ended there; when it returned, line 151
\* samples the memory and the report is printed.
try_bodies(r, image_path, infer_time, before, encoding) ==
    IF r.raised
    THEN { [lines |-> << >>, raised |-> TRUE, error |-> r.error] }
    ELSE { try_rest(image_path, r.value, infer_time, before,
                    print_memory_usage_gb(s151.ok, s151.rss), encoding) :
             s151 \in PsutilOutcomes }

\* lines 149-164, and 143 taking the next image.  The except clause takes
\* an exception of the call and of the rest of the try body alike; it
\* samples the memory again (line 161), and an exception of that sample
\* leaves main.
Report ==
    /\ pc = "Report"
    /\ LET infer_time == now - infer_start
       IN  \E body \in try_bodies(res, image_files[idx], infer_time,
                                  mem_before, stdout_encoding) :
             \E s161 \in IF body.raised THEN PsutilOutcomes
                          ELSE { [ok |-> TRUE, rss |-> 0] } :
               LET mem_after == print_memory_usage_gb(s161.ok, s161.rss)
                   escaped == body.raised /\ mem_after.raised
               IN  /\ out' = out \o body.lines \o
                         (IF body.raised /\ ~mem_after.raised
                          THEN failure_report(image_files[idx], body.error,
                                              infer_time, mem_before,
                                              mem_after.value)
                          ELSE << >>)
                   /\ pc' = IF escaped THEN "Raised"
                            ELSE after_item(body.raised, idx, image_files)
                   /\ idx' = IF ~escaped /\ idx < Len(image_files)
                             THEN idx + 1 ELSE idx
    /\ res' = NoResult
    /\ UNCHANGED << dir, cuda, stdout_encoding, now, image_files, pipe,
                    model_load_start, infer_start, mem_before,
                    pipeline_calls, generate_calls, describe_calls, probes >>

Next == Discover \/ LoadEngine \/ Summary \/ Start \/ Infer \/ Report

Spec == Init /\ [][Next]_vars

----------------------------------------------------------------------------
(* describe_image_with_pipeline called on its own, outside a batch *)

\* the image paths a caller passes
Paths == { e.name : e \in Universe }

InitDescribe ==
    /\ dir = {}
    /\ cuda \in BOOLEAN
    /\ stdout_encoding \in Encodings
    /\ now = 0
    /\ pc = "Call"
    /\ image_files = << >>
    /\ pipe = None
    /\ idx = 0
    /\ model_load_start = 0
    /\ infer_start = 0
    /\ mem_before = 0
    /\ res = NoResult
    /\ out = << >>
    /\ pipeline_calls = << >>
    /\ generate_calls = << >>
    /\ describe_calls = << >>
    /\ probes = << >>

\* lines 26-71: one call, with a pipeline of the caller's or none
DescribeCall ==
    /\ pc = "Call"
    /\ Len(describe_calls) < MaxCalls
    /\ \E image_path \in Paths, user_text \in UserTexts,
          pipe_arg \in { None, Some(pipeline(cuda, "caller")) },
          init \in InitOutcomes, gen \in GenOutcomes :
          LET r == describe_image_with_pipeline(image_path, user_text,
                                                pipe_arg, cuda, init, gen)
          IN  /\ pipeline_calls' = pipeline_calls \o r.built
              /\ generate_calls' = generate_calls \o r.calls
              /\ describe_calls' =
                    Append(describe_calls,
                           described(image_path, user_text, pipe_arg, r))
              /\ res' = [raised |-> r.raised, value |-> r.value,
                         error |-> r.error]
    /\ now' = now + 1
    /\ UNCHANGED << dir, cuda, stdout_encoding, pc, image_files, pipe, idx,
                    model_load_start, infer_start, mem_before, out, probes >>

NextDescribe == DescribeCall

SpecDescribe == InitDescribe /\ [][NextDescribe]_vars

----------------------------------------------------------------------------
(* Reading the output and the call logs *)

Images == 1..Len(image_files)

\* positions of the output whose line is one of kinds
LinesOf(kinds) == { k \in 1..Len(out) : out[k].line \in kinds }

\* an ItemReport starts with the line naming its image: "image_name" in a
\* success report, "error" in a failure report
SuccessHeads(image) ==
    { k \in LinesOf({"image_name"}) : out[k].image = image }
FailureHeads(image) ==
    { k \in LinesOf({"error"}) : out[k].image = image }
ReportHeads(image) == SuccessHeads(image) \cup FailureHeads(image)

\* the last line of the report that starts at k: the line before the next
\* "processing" line or report head, or the end of the output
ReportEnd(k) ==
    LET later == { p \in LinesOf({"processing", "image_name", "error"}) : p > k }
    IN  IF later = {} THEN Len(out) ELSE Min(later) - 1

\* the report that starts at k carries one before-inference and one
\* after-inference memory sample
CarriesMemory(k) ==
    LET body == (k + 1)..ReportEnd(k)
    IN  /\ Cardinality(body \cap LinesOf({"mem_before"})) = 1
        /\ Cardinality(body \cap LinesOf({"mem_after"})) = 1
        /\ \A m \in body \cap LinesOf({"mem_before", "mem_after"}) :
              out[m].num \in
                  { print_memory_usage_gb(TRUE, x).value : x \in RssSamples }

\* the loop has finished with the i-th image
Processed(i) == i \in Images /\ (i < idx \/ pc = "Done")

\* describe_image_with_pipeline was called for the i-th image
Called(i) ==
    \E k \in 1..Len(describe_calls) :
        describe_calls[k].image_path = image_files[i]

\* the generation calls made for an image: those whose user turn refers to it
CallsFor(image) ==
    { k \in 1..Len(generate_calls) :
        generate_calls[k].text[2].content[1].image = image }

\* the generation call made for the i-th image raised
Failed(i) ==
    \E k \in 1..Len(describe_calls) :
        /\ describe_calls[k].image_path = image_files[i]
        /\ describe_calls[k].sent # << >>
        /\ describe_calls[k].raised

\* the engine construction of main raised
EngineFailed ==
    \E k \in 1..Len(pipeline_calls) : pipeline_calls[k].raised

----------------------------------------------------------------------------
(* The claims *)

\* C1: failure isolation.  Once the generation call made for an image X has
\* raised, no exception leaves main, and when main has returned every image
\* after X has its ItemReport.
C1_FailureIsolation ==
    \A x \in Images :
        Failed(x) =>
            /\ pc # "Raised"
            /\ pc = "Done" =>
                  \A y \in Images : y > x => ReportHeads(image_files[y]) # {}

\* C2: each discovered image the loop has finished with has exactly one
\* ItemReport, a success report or a failure report and not both, carrying
\* one before-inference and one after-inference memory sample; an image the
\* loop has not finished with has none.
C2_OneReportPerImage ==
    \A i \in Images :
        /\ Cardinality(ReportHeads(image_files[i])) =
              (IF Processed(i) THEN 1 ELSE 0)
        /\ \A k \in ReportHeads(image_files[i]) : CarriesMemory(k)

\* C3: engine reuse.  A batch run constructs at most one pipeline, the one
\* of main; every call of describe_image_with_pipeline receives that handle
\* and not None, and every generation call goes to it.
C3_EngineReuse ==
    /\ Len(pipeline_calls) <= 1
    /\ \A k \in 1..Len(pipeline_calls) : pipeline_calls[k].call.site = "main"
    /\ \A k \in 1..Len(describe_calls) :
          /\ describe_calls[k].pipe # None
          /\ describe_calls[k].pipe = pipe
          /\ describe_calls[k].pipe[1] = pipeline_calls[1].call
    /\ \A k \in 1..Len(generate_calls) : generate_calls[k].pipe = pipe

\* main has returned after a call for each image of a batch, with the one
\* pipeline
C3_Witness ==
    /\ pc = "Done"
    /\ Len(describe_calls) >= 2
    /\ Len(describe_calls) = Len(image_files)
    /\ Len(pipeline_calls) = 1

\* C4: when discovery found nothing, main has returned, the output is the
\* one "no images" line, and no pipeline was constructed, no generation call
\* made and no ItemReport emitted.
C4_EmptyDiscovery ==
    pc # "Discover" /\ image_files = << >> =>
        /\ pc = "Done"
        /\ Len(out) = 1
        /\ out[1].line = "no_images"
        /\ pipeline_calls = << >>
        /\ generate_calls = << >>
        /\ describe_calls = << >>
        /\ LinesOf({"image_name", "error"}) = {}

\* discovery has run in a directory that has entries and found nothing
C4_Witness ==
    /\ pc = "Done"
    /\ image_files = << >>
    /\ dir # {}
    /\ LinesOf({"no_images"}) # {}

\* the part of a name after its last dot; None when it has no dot
Extension(name) ==
    LET dots == { k \in 1..Len(name) : name[k] = "." }
    IN  IF dots = {} THEN None
        ELSE LET last == CHOOSE k \in dots : \A j \in dots : j <= k
             IN  Some(SubSeq(name, last + 1, Len(name)))

ImageExtensions ==
    { << "p", "n", "g" >>, << "j", "p", "g" >>, << "j", "p", "e", "g" >>,
      << "w", "e", "b", "p" >> }

\* C5: discovery.  The list of images holds exactly the files of the
\* directory whose extension is png, jpg, jpeg or webp, compared
\* case-sensitively, each once, and no other entry.
C5_Discovery ==
    pc # "Discover" =>
        /\ { image_files[i] : i \in Images } =
              { e.name : e \in { x \in dir :
                    /\ x.kind = "file"
                    /\ Extension(x.name) # None
                    /\ Extension(x.name)[1] \in ImageExtensions } }
        /\ \A i, j \in Images : i # j => image_files[i] # image_files[j]

\* C6: engine construction failure is fatal to the batch.  When the
\* construction in main raised, the exception has left main, and there is
\* no call of describe_image_with_pipeline, no generation call, no
\* "processing" line and no ItemReport.
C6_EngineInitFatal ==
    EngineFailed =>
        /\ pc = "Raised"
        /\ pipe = None
        /\ describe_calls = << >>
        /\ generate_calls = << >>
        /\ out = << >>

\* the construction raised in a directory with several images
C6_Witness ==
    /\ EngineFailed
    /\ pc = "Raised"
    /\ Len(image_files) >= 2

\* C7: a size probe that cannot tell the size never aborts the run.  When
\* get_model_size_gb found no cache entry or its probe raised, the summary
\* says the size is unknown and gives no size, no exception leaves main,
\* and at the return of main every image has its ItemReport.
C7_SizeProbeSwallowed ==
    \A k \in 1..Len(probes) :
        probes[k].kind \in {"missing", "raise"} =>
            /\ Cardinality(LinesOf({"model_size_unknown"})) = 1
            /\ LinesOf({"model_size"}) = {}
            /\ pc # "Raised"
            /\ pc = "Done" =>
                  \A i \in Images : ReportHeads(image_files[i]) # {}

\* C8: prompt determinism.  Whatever image and user_text a call of
\* describe_image_with_pipeline is given, the conversation it sends is the
\* system turn with the fixed instruction followed by a user turn whose
\* content is one image reference, the path given, and nothing else.
C8_PromptDeterminism ==
    \A k \in 1..Len(describe_calls) :
        \A j \in 1..Len(describe_calls[k].sent) :
            LET t == describe_calls[k].sent[j].text
            IN  /\ Len(t) = 2
                /\ t[1].role = "system"
                /\ Len(t[1].content) = 1
                /\ t[1].content[1].type = "text"
                /\ t[1].content[1].text = SYSTEM_PROMPT
                /\ t[2].role = "user"
                /\ Len(t[2].content) = 1
                /\ t[2].content[1].type = "image"
                /\ t[2].content[1].image = describe_calls[k].image_path

\* a call given a user_text has sent its conversation
C8_Witness ==
    \E k \in 1..Len(describe_calls) :
        /\ describe_calls[k].user_text # None
        /\ describe_calls[k].sent # << >>

SummaryLines == {"model_size", "model_size_unknown", "model_loaded",
                 "initial_memory"}

\* the engine load of main has completed
EngineLoaded ==
    /\ pipe # None
    /\ Len(pipeline_calls) >= 1
    /\ ~pipeline_calls[1].raised

\* the output holds the batch summary, once, as its first three lines
SummaryEmitted ==
    /\ Len(out) >= 3
    /\ out[1].line \in {"model_size", "model_size_unknown"}
    /\ out[2].line = "model_loaded"
    /\ out[3].line = "initial_memory"
    /\ LinesOf(SummaryLines) = {1, 2, 3}

\* what holds in every state of an ordered run
C9_State ==
    /\ generate_calls # << >> \/ describe_calls # << >> => EngineLoaded
    /\ LinesOf({"processing"}) # {} => SummaryEmitted
    /\ pc \in {"Start", "Infer", "Report"} =>
          EngineLoaded /\ SummaryEmitted /\ idx \in Images
    /\ pc = "Infer" =>
          /\ out[Len(out)].line = "processing"
          /\ out[Len(out)].image = image_files[idx]
          /\ Len(describe_calls) = idx - 1
    /\ pc = "Report" => Len(describe_calls) = idx
    /\ \A p \in LinesOf({"processing"}) :
          \E i \in Images :
              /\ out[p].image = image_files[i]
              /\ \A h \in Images :
                    h < i =>
                       \E r \in ReportHeads(image_files[h]) :
                           r < p /\ ReportEnd(r) < p
              /\ \A h \in Images :
                    h >= i =>
                       \A r \in ReportHeads(image_files[h]) : r > p

\* the steps of an ordered run; "Raised" ends a run with an exception
C9_Step ==
    << pc, pc' >> \in
        { << "Discover", "LoadEngine" >>, << "Discover", "Done" >>,
          << "LoadEngine", "Summary" >>, << "LoadEngine", "Raised" >>,
          << "Summary", "Start" >>, << "Summary", "Raised" >>,
          << "Start", "Infer" >>, << "Start", "Raised" >>,
          << "Infer", "Report" >>, << "Report", "Start" >>,
          << "Report", "Done" >>, << "Report", "Raised" >> }

\* C9: run ordering.  Every step of a run keeps the order Discover,
\* LoadEngine, summary, then for each image in turn Start, Infer, Report,
\* then Done (a run that found nothing ends at Discover, and an exception
\* that leaves main ends the run where it is); no generation call is made
\* before the engine load has completed; the summary is emitted once,
\* before the first image starts; and the report of an image is complete
\* before the next image starts.
C9_RunOrdering == [][C9_Step]_vars /\ []C9_State

\* the second image has started after the summary and the first report
C9_Witness ==
    /\ pc = "Infer"
    /\ idx = 2
    /\ SummaryEmitted
    /\ Cardinality(LinesOf({"image_name", "error"})) = 1

\* C10 as stated: at the end of every batch run the generation capability
\* has been invoked exactly once for each discovered image.
C10_Original ==
    pc \in {"Done", "Raised"} =>
        \A i \in Images : Cardinality(CallsFor(image_files[i])) = 1

\* C10, amended: the generation capability is invoked at most once for each
\* discovered image, whether the invocation returns or raises: once for
\* each image describe_image_with_pipeline was called for, which is every
\* image the loop has finished with and, when main returns, every
\* discovered image; an image the run did not reach has no call.
C10_NoRetry ==
    /\ \A i \in Images :
          /\ Cardinality(CallsFor(image_files[i])) =
                (IF Called(i) THEN 1 ELSE 0)
          /\ Processed(i) => Called(i)
    /\ Len(generate_calls) = Len(describe_calls)
    /\ Len(describe_calls) <= Len(image_files)
    /\ pc = "Done" =>
          \A i \in Images : Cardinality(CallsFor(image_files[i])) = 1

\* main has returned from a batch in which a generation call raised and
\* another returned, each image called once
C10_Witness ==
    /\ pc = "Done"
    /\ \E i, j \in Images : Failed(i) /\ ~Failed(j)
    /\ \A i \in Images : Cardinality(CallsFor(image_files[i])) = 1

====
